---- MODULE Spec2Model ----
(***************************************************************************)
(* Model of the Weaviate admin proxy, src/manage.js: the remote call       *)
(* wrapper weaviateFetch, the string escaper, the GraphQL query builders   *)
(* and the route handlers /list /add /delete /object /search /classes      *)
(* /info, each handler run as a small state machine around its awaits.     *)
(*                                                                         *)
(* Representation.                                                         *)
(*  - A text (JS string, HTTP body, GraphQL document) is a sequence of     *)
(*    tokens. The characters the code treats specially are one token each  *)
(*    (backslash, double quote, newline, carriage return, space, ...); a   *)
(*    run of ordinary characters ("Doc", "hybrid") is one token.           *)
(*  - A JS/JSON value is a tagged tuple: <<"undef">>, <<"null">>,          *)
(*    <<"bool", b>>, <<"num", n>> (an integer), <<"dec", t>> (the number   *)
(*    t/10, t not a multiple of 10), <<"str", text>>, <<"arr", seq>>,      *)
(*    <<"obj", props>>, props a sequence of <<key text, value>> pairs in   *)
(*    insertion order.                                                     *)
(***************************************************************************)
EXTENDS Integers, Sequences, FiniteSets, TLC

(* ------------------------------ bounds -------------------------------- *)

\* longest free-text search query drawn for /search
MaxLen == 3
\* largest object count a class's aggregate call reports
MaxCount == 1
\* most class entries in a schema the remote returns
MaxClasses == 2

(* ------------------------- special characters ------------------------- *)

BS == "\\"
DQ == "\""
NL == "\n"
CR == "\r"
SP == " "

(* ----------------------------- JS values ------------------------------ *)

Undef == <<"undef">>
Null == <<"null">>
Bool(b) == <<"bool", b>>
Num(n) == <<"num", n>>
Dec(t) == <<"dec", t>>
Str(s) == <<"str", s>>
Arr(a) == <<"arr", a>>
Obj(o) == <<"obj", o>>

Tag(v) == v[1]

\* typeof v
TypeOf(v) ==
    CASE Tag(v) = "undef" -> "undefined"
      [] Tag(v) = "null" -> "object"
      [] Tag(v) = "bool" -> "boolean"
      [] Tag(v) \in {"num", "dec"} -> "number"
      [] Tag(v) = "str" -> "string"
      [] OTHER -> "object"

\* ToBoolean(v), the test behind !v, v || w and v ? a : b
Truthy(v) ==
    CASE Tag(v) \in {"undef", "null"} -> FALSE
      [] Tag(v) = "bool" -> v[2]
      [] Tag(v) = "num" -> v[2] # 0
      [] Tag(v) = "dec" -> TRUE
      [] Tag(v) = "str" -> v[2] # <<>>
      [] OTHER -> TRUE

\* v || w
OrElse(v, w) == IF Truthy(v) THEN v ELSE w

\* v ?? w
Coalesce(v, w) == IF Tag(v) \in {"undef", "null"} THEN w ELSE v

\* one property of an object literal, { k: v }
P(k, v) == <<<<k>>, v>>

\* the keys of an object, as a set of texts
Keys(o) == IF Tag(o) = "obj" THEN {o[2][i][1] : i \in DOMAIN o[2]} ELSE {}

\* o?.[k] for a key text k: undefined when o is null, undefined, not an object,
\* or has no such property
Get(o, k) ==
    IF k \in Keys(o)
    THEN o[2][CHOOSE i \in DOMAIN o[2] : o[2][i][1] = k][2]
    ELSE Undef

\* o?.k for a literal property name
GetP(o, k) == Get(o, <<k>>)

\* o[k] = v : overwrite in place, or append a new property
SetProp(o, k, v) ==
    IF k \in Keys(o)
    THEN Obj([i \in DOMAIN o[2] |-> IF o[2][i][1] = k THEN <<k, v>> ELSE o[2][i]])
    ELSE Obj(Append(o[2], <<k, v>>))

\* a?.[i] with i a zero-based index
At(a, i) ==
    IF Tag(a) = "arr" /\ i + 1 \in DOMAIN a[2] THEN a[2][i + 1] ELSE Undef

Digit(n) == <<"0", "1", "2", "3", "4", "5", "6", "7", "8", "9">>[n + 1]

RECURSIVE NumText(_)
\* decimal digits of a natural number
NumText(n) == IF n < 10 THEN <<Digit(n)>> ELSE NumText(n \div 10) \o <<Digit(n % 10)>>

RECURSIVE Join(_)
\* Array.prototype.join(",") over already converted element texts
Join(ts) ==
    IF ts = <<>> THEN <<>>
    ELSE IF Len(ts) = 1 THEN ts[1]
    ELSE ts[1] \o <<",">> \o Join(Tail(ts))

RECURSIVE JSString(_)
\* String(v), the conversion a template literal `${v}` applies
JSString(v) ==
    CASE Tag(v) = "undef" -> <<"undefined">>
      [] Tag(v) = "null" -> <<"null">>
      [] Tag(v) = "bool" -> IF v[2] THEN <<"true">> ELSE <<"false">>
      [] Tag(v) = "num" -> NumText(v[2])
      [] Tag(v) = "dec" -> NumText(v[2] \div 10) \o <<".">> \o NumText(v[2] % 10)
      [] Tag(v) = "str" -> v[2]
      [] Tag(v) = "arr" ->
            Join([i \in DOMAIN v[2] |->
                    IF Tag(v[2][i]) \in {"undef", "null"} THEN <<>> ELSE JSString(v[2][i])])
      [] OTHER -> <<"[object Object]">>

(* -------------------------------- texts ------------------------------- *)

IsSpace(c) == c \in {SP, NL, CR, "\t"}

RECURSIVE TrimStart(_)
TrimStart(t) == IF t # <<>> /\ IsSpace(Head(t)) THEN TrimStart(Tail(t)) ELSE t

RECURSIVE TrimEnd(_)
TrimEnd(t) ==
    IF t # <<>> /\ IsSpace(t[Len(t)]) THEN TrimEnd(SubSeq(t, 1, Len(t) - 1)) ELSE t

\* String.prototype.trim
Trim(t) == TrimEnd(TrimStart(t))

RECURSIVE ReplaceAll(_, _, _)
\* str.replace(/c/g, rep) for a one-character pattern c
ReplaceAll(t, c, rep) ==
    IF t = <<>> THEN <<>>
    ELSE (IF Head(t) = c THEN rep ELSE <<Head(t)>>) \o ReplaceAll(Tail(t), c, rep)

\* a faulty variant of escapeGraphQL that escapes the quotes before the backslashes
escapeGraphQL_QuoteFirst(str) ==
    IF TypeOf(str) # "string" THEN str
    ELSE Str(ReplaceAll(ReplaceAll(ReplaceAll(ReplaceAll(str[2],
                DQ, <<BS, DQ>>), BS, <<BS, BS>>), NL, <<BS, "n">>), CR, <<BS, "r">>))

\* a faulty variant of escapeGraphQL that forgets the double quote
escapeGraphQL_NoQuote(str) ==
    IF TypeOf(str) # "string" THEN str
    ELSE Str(ReplaceAll(ReplaceAll(ReplaceAll(str[2],
                BS, <<BS, BS>>), NL, <<BS, "n">>), CR, <<BS, "r">>))

escapeGraphQL(str) ==
    IF TypeOf(str) # "string" THEN str
    ELSE Str(ReplaceAll(ReplaceAll(ReplaceAll(ReplaceAll(str[2],
                BS, <<BS, BS>>), DQ, <<BS, DQ>>), NL, <<BS, "n">>), CR, <<BS, "r">>))

(* -------------------------------- JSON ------------------------------- *)

\* the quoted form JSON.stringify gives a string
JsonQuote(t) ==
    <<DQ>> \o ReplaceAll(ReplaceAll(ReplaceAll(ReplaceAll(t,
        BS, <<BS, BS>>), DQ, <<BS, DQ>>), NL, <<BS, "n">>), CR, <<BS, "r">>) \o <<DQ>>

RECURSIVE JsonText(_)
\* JSON.stringify(v) for a value that is not undefined; an undefined array
\* element is written null, an undefined property is left out
JsonText(v) ==
    CASE Tag(v) \in {"undef", "null"} -> <<"null">>
      [] Tag(v) \in {"bool", "num", "dec"} -> JSString(v)
      [] Tag(v) = "str" -> JsonQuote(v[2])
      [] Tag(v) = "arr" ->
            <<"[">> \o Join([i \in DOMAIN v[2] |-> JsonText(v[2][i])]) \o <<"]">>
      [] OTHER ->
            LET kept == SelectSeq(v[2], LAMBDA p : Tag(p[2]) # "undef")
            IN <<"{">> \o Join([i \in DOMAIN kept |->
                         JsonQuote(kept[i][1]) \o <<":">> \o JsonText(kept[i][2])]) \o <<"}">>

(* ------------------------- the remote's answers ----------------------- *)

\* class names the requests and the remote's schema use
ListClass == <<"Doc">>
InfoClasses == {<<"A">>, <<"B">>}

\* one stored record as GraphQL Get returns it
GetRecord ==
    Obj(<<P("query", Str(<<"q">>)), P("content", Str(<<"c">>)),
          P("_additional", Obj(<<P("id", Str(<<"x">>))>>))>>)

GqlErrors == Arr(<<Obj(<<P("message", Str(<<"boom">>))>>)>>)

\* parsed bodies the remote answers a Get query on class c with
GetDocs(c) ==
    { Null,
      Obj(<<>>),
      Obj(<<P("data", Obj(<<>>))>>),
      Obj(<<P("data", Obj(<<P("Get", Obj(<<>>))>>))>>),
      Obj(<<P("data", Obj(<<P("Get", Obj(<<<<c, Null>>>>))>>))>>),
      Obj(<<P("data", Obj(<<P("Get", Obj(<<<<c, Arr(<<GetRecord>>)>>>>))>>))>>),
      Obj(<<P("errors", GqlErrors)>>),
      Obj(<<P("errors", GqlErrors),
            P("data", Obj(<<P("Get", Obj(<<<<c, Arr(<<GetRecord>>)>>>>))>>))>>) }

\* the answers to POST /v1/objects and GET /v1/objects/{id}
ObjectDocs ==
    { Obj(<<P("id", Str(<<"x">>)), P("class", Str(ListClass))>>),
      Obj(<<P("id", Str(<<"x">>)), P("vector", Arr(<<Num(1), Num(0)>>))>>) }

\* one type of the introspection payload
TypeEntry(name, fields) ==
    Obj(<<P("name", Str(<<name>>)),
          P("fields", Arr([i \in DOMAIN fields |-> Obj(<<P("name", Str(<<fields[i]>>))>>)]))>>)

IntrospectionDoc(types) ==
    Obj(<<P("data", Obj(<<P("__schema", Obj(<<P("types", Arr(types))>>))>>))>>)

\* the answers to the introspection query of /classes
ClassesDocs ==
    { IntrospectionDoc(<<TypeEntry("Query", <<"Get">>),
                         TypeEntry("GetObjectsObj", <<"Doc", "Note">>)>>),
      IntrospectionDoc(<<TypeEntry("Query", <<"Get">>)>>),
      IntrospectionDoc(<<>>),
      IntrospectionDoc(<<Obj(<<P("name", Str(<<"GetObjectsObj">>)), P("fields", Null)>>)>>),
      Obj(<<P("errors", GqlErrors)>>) }

\* the answer to GET /v1/meta
MetaDocs == { Obj(<<P("version", Str(<<"1.24.1">>))>>) }

\* the shapes of a schema class entry that /info reads a name from:
\* an entry with a class field, an entry with only a name field, a bare string
SchemaEntries ==
    { Obj(<<P("class", Str(<<"A">>)), P("vectorizer", Str(<<"text2vec">>)),
            P("properties", Arr(<<Obj(<<P("name", Str(<<"title">>))>>)>>))>>),
      Obj(<<P("name", Str(<<"B">>))>>),
      Str(<<"A">>) }

\* the answers to GET /v1/schema: up to MaxClasses entries, or no classes field
SchemaDocs ==
    { Obj(<<P("classes", Arr(es))>>) :
        es \in UNION {[1..n -> SchemaEntries] : n \in 0..MaxClasses} }
    \cup { Obj(<<>>) }

AggregateDoc(c, rows) ==
    Obj(<<P("data", Obj(<<P("Aggregate", Obj(<<<<c, Arr(rows)>>>>))>>))>>)

CountRow(count) == Obj(<<P("meta", Obj(<<P("count", count)>>))>>)

\* the answers to the aggregate count query on class c
AggregateDocs(c) ==
    { AggregateDoc(c, <<CountRow(Num(n))>>) : n \in 0..MaxCount }
    \cup { AggregateDoc(c, <<CountRow(Str(<<"1">>))>>), AggregateDoc(c, <<>>),
           AggregateDoc(c, <<CountRow(Null)>>) }

\* every parsed body the remote sends
RemoteDocs ==
    GetDocs(ListClass) \cup ObjectDocs \cup ClassesDocs \cup MetaDocs \cup SchemaDocs
    \cup UNION {AggregateDocs(c) : c \in InfoClasses}

\* the JSON text of each
RemoteText == [v \in RemoteDocs |-> JsonText(v)]

\* and the value each of these texts is the JSON text of
RemoteValue ==
    [t \in {RemoteText[v] : v \in RemoteDocs} |->
        CHOOSE v \in RemoteDocs : RemoteText[v] = t]

\* a received HTTP response; net = "reject" is a fetch() that rejected
Http(status, statusText, text) ==
    [net |-> "http", status |-> status, statusText |-> statusText, text |-> text]

Rejected == [net |-> "reject", status |-> 0, statusText |-> <<>>, text |-> <<>>]

NoRes == [net |-> "none", status |-> 0, statusText |-> <<>>, text |-> <<>>]

\* answers that make weaviateFetch throw
FailingResponses ==
    { Http(404, <<"Not", SP, "Found">>, <<SP, "not", SP, "found", NL>>),
      Http(404, <<"Not", SP, "Found">>, <<>>),
      Http(500, <<"Internal", SP, "Server", SP, "Error">>, <<SP, NL>>),
      Http(400, <<"Bad", SP, "Request">>, JsonText(Obj(<<P("errors", GqlErrors)>>))),
      Http(200, <<"OK">>, <<"<html>">>),
      Http(204, <<"No", SP, "Content">>, <<>>),
      Rejected }

\* success answers carrying the documents ds
OkResponses(ds) == { Http(200, <<"OK">>, RemoteText[d]) : d \in ds }

\* the two ways a per-class count call is made to fail
CountFailures ==
    { Http(500, <<"Internal", SP, "Server", SP, "Error">>, <<SP, NL>>),
      Http(200, <<"OK">>, <<"<html>">>) }

\* the base URLs and API keys of two further Weaviate instances
BaseA == Str(<<"http:", "/", "/", "a">>)
BaseB == Str(<<"http:", "/", "/", "b">>)
KeyA == Str(<<"ka">>)
KeyB == Str(<<"kb">>)

\* what these two instances hold: one record of class Doc, one object, the
\* introspection type GetObjectsObj, the classes B and A with one object each
SmallRemoteDocs ==
    { Obj(<<P("data", Obj(<<P("Get", Obj(<<<<ListClass, Arr(<<GetRecord>>)>>>>))>>))>>),
      Obj(<<P("id", Str(<<"x">>)), P("class", Str(ListClass))>>),
      IntrospectionDoc(<<TypeEntry("Query", <<"Get">>),
                         TypeEntry("GetObjectsObj", <<"Doc", "Note">>)>>),
      Obj(<<P("classes", Arr(<<Obj(<<P("name", Str(<<"B">>))>>), Str(<<"A">>)>>))>>) }
    \cup MetaDocs
    \cup { AggregateDoc(c, <<CountRow(Num(1))>>) : c \in InfoClasses }

\* the responses fetch may get from the instance at base to a call that has
\* the failures and the documents docs as its possible answers: any of them
\* from the instance the requests are usually sent to, and from the two small
\* instances a 500 or what the instance holds
Answers(base, failures, docs) ==
    IF base \in {BaseA, BaseB}
    THEN (failures \cap {Http(500, <<"Internal", SP, "Server", SP, "Error">>, <<SP, NL>>)})
         \cup OkResponses(docs \cap SmallRemoteDocs)
    ELSE failures \cup OkResponses(docs)

(* --------------------------- remote call wrapper ---------------------- *)

\* Response.ok of node-fetch
ResOk(res) == res.status \in 200..299

\* JSON.parse(text): the value whose JSON text this is, surrounding white
\* space allowed; ok = FALSE is the SyntaxError
JsonParse(text) ==
    LET t == Trim(text)
    IN IF t \in DOMAIN RemoteValue THEN [ok |-> TRUE, value |-> RemoteValue[t]]
       ELSE [ok |-> FALSE, value |-> Undef]

\* new Error(message)
Error(message) == [name |-> "Error", message |-> message]

NoError == [name |-> "", message |-> <<>>]

Return(v) == [threw |-> FALSE, value |-> v, error |-> NoError]
Throw(e) == [threw |-> TRUE, value |-> Undef, error |-> e]

\* a faulty variant of weaviateFetch that reports a failed status by the raw body
weaviateFetch_RawBody(path, res) ==
    IF res.net = "reject"
    THEN Throw([name |-> "FetchError", message |-> <<"fetch", SP, "failed">>])
    ELSE IF ~ResOk(res)
    THEN Throw(Error(<<"Request", SP, "to", SP>> \o path \o <<SP, "failed:", SP>>
                     \o res.text))
    ELSE LET parsed == JsonParse(res.text)
         IN IF parsed.ok THEN Return(parsed.value)
            ELSE Throw(Error(<<"Invalid", SP, "JSON", SP, "response", SP, "from", SP>>
                             \o path \o <<":", SP>>
                             \o (IF Trim(res.text) # <<>> THEN Trim(res.text)
                                 ELSE <<"empty", SP, "response">>)))

\* a faulty variant of weaviateFetch that parses the body before it looks at the
\* status: a failed status with a body that is not JSON is reported as a bad body
weaviateFetch_ParseFirst(path, res) ==
    IF res.net = "reject"
    THEN Throw([name |-> "FetchError", message |-> <<"fetch", SP, "failed">>])
    ELSE LET parsed == JsonParse(res.text)
             msg == IF Trim(res.text) # <<>> THEN Trim(res.text)
                    ELSE NumText(res.status) \o <<SP>> \o res.statusText
         IN IF ~parsed.ok
            THEN Throw(Error(<<"Invalid", SP, "JSON", SP, "response", SP, "from", SP>>
                             \o path \o <<":", SP>>
                             \o (IF Trim(res.text) # <<>> THEN Trim(res.text)
                                 ELSE <<"empty", SP, "response">>)))
            ELSE IF ~ResOk(res)
            THEN Throw(Error(<<"Request", SP, "to", SP>> \o path \o <<SP, "failed:", SP>> \o msg))
            ELSE Return(parsed.value)

\* what weaviateFetch does with the response res to its request for path:
\* returns the parsed body or throws
weaviateFetch(path, res) ==
    IF res.net = "reject"
    THEN Throw([name |-> "FetchError", message |-> <<"fetch", SP, "failed">>])
    ELSE IF ~ResOk(res)
    THEN LET msg == IF Trim(res.text) # <<>> THEN Trim(res.text)
                    ELSE NumText(res.status) \o <<SP>> \o res.statusText
         IN Throw(Error(<<"Request", SP, "to", SP>> \o path \o <<SP, "failed:", SP>> \o msg))
    ELSE LET parsed == JsonParse(res.text)
         IN IF parsed.ok THEN Return(parsed.value)
            ELSE Throw(Error(<<"Invalid", SP, "JSON", SP, "response", SP, "from", SP>>
                             \o path \o <<":", SP>>
                             \o (IF Trim(res.text) # <<>> THEN Trim(res.text)
                                 ELSE <<"empty", SP, "response">>)))

\* the request weaviateFetch sends: fetch(`${base}${path}`, {...options, headers})
FetchRequest(base, path, apiKey, method, body) ==
    [url |-> JSString(base) \o path,
     path |-> path,
     method |-> method,
     authorization |-> <<"Bearer", SP>> \o JSString(apiKey),
     body |-> body,
     state |-> "pending",
     res |-> NoRes,
     out |-> Return(Undef)]

(* ----------------------------- query builders ------------------------- *)

DEFAULT_LIST_LIMIT == 20

buildListQuery(className, limit) ==
    <<"{", "Get", "{">> \o JSString(className)
    \o <<"(", "limit:", SP>> \o JSString(limit)
    \o <<"sort:", "[", "{", "path:", "[", DQ, "_creationTimeUnix", DQ, "]",
         "order:", "desc", "}", "]", ")",
         "{", "query", "content", "_additional", "{", "id", "}", "}", "}", "}">>

DEFAULT_SEARCH_LIMIT == 5

\* 0.5
DEFAULT_NEARTEXT_CERTAINTY == Dec(5)

DEFAULT_SEARCH_PROPERTIES == Arr(<<Str(<<"query">>), Str(<<"content">>)>>)

\* the tokens of a search query before and after the interpolated query text,
\* for the hybrid clause
HybridHead(className) ==
    <<"{", "Get", "{">> \o JSString(className)
    \o <<"(", "hybrid:", "{", "query:", SP, DQ>>

HybridTail(properties, alpha, limit) ==
    <<DQ, "properties:", SP>> \o JsonText(properties)
    \o <<"alpha:", SP>> \o JSString(alpha)
    \o <<"}", "limit:", SP>> \o JSString(limit)
    \o <<")", "{", "query", "content", "_additional", "{", "id", "score", "}",
         "}", "}", "}">>

\* the same for the nearText clause
NearTextHead(className) ==
    <<"{", "Get", "{">> \o JSString(className)
    \o <<"(", "nearText:", "{", "concepts:", SP, "[", DQ>>

NearTextTail(certainty, limit) ==
    <<DQ, "]", ",", "certainty:", SP>> \o JSString(certainty)
    \o <<"}", "limit:", SP>> \o JSString(limit)
    \o <<")", "{", "content", "_additional", "{", "id", "certainty", "}",
         "}", "}", "}">>

\* buildSearchQuery(className, query, type = 'hybrid', options = {})
buildSearchQuery(className, query, type, options) ==
    LET mode == IF type = Undef THEN Str(<<"hybrid">>) ELSE type
        limit == OrElse(GetP(options, "limit"), Num(DEFAULT_SEARCH_LIMIT))
        escapedQuery == escapeGraphQL(query)
    IN IF mode = Str(<<"hybrid">>)
       THEN LET alpha == OrElse(GetP(options, "alpha"), Dec(5))
                properties == OrElse(GetP(options, "properties"), DEFAULT_SEARCH_PROPERTIES)
            IN HybridHead(className) \o JSString(escapedQuery)
               \o HybridTail(properties, alpha, limit)
       ELSE LET certainty == OrElse(GetP(options, "certainty"), DEFAULT_NEARTEXT_CERTAINTY)
            IN NearTextHead(className) \o JSString(escapedQuery)
               \o NearTextTail(certainty, limit)

buildClassesQuery ==
    <<"{", "__schema", "{", "types", "{", "name", "fields", "{", "name", "}",
      "}", "}", "}">>

buildAggregateQuery(className) ==
    <<"{", "Aggregate", "{">> \o JSString(className)
    \o <<"{", "meta", "{", "count", "}", "}", "}", "}">>

(* ------------------------------ the state ----------------------------- *)

\* the requests in flight
Reqs == {1, 2}

VARIABLES
    req,    \* req[r]: the route and req.body of request r
    pc,     \* pc[r]: where its handler stands: "idle" (no such request), "start",
            \* "await" (suspended on its latest remote call), "fanout" (suspended
            \* on Promise.all), "done" (the handler has returned or thrown)
    calls,  \* calls[r]: the remote calls made for r, in the order issued
    resp,   \* resp[r]: the responses sent to r's caller
    loc     \* loc[r]: the locals of the /info handler

vars == <<req, pc, calls, resp, loc>>

NoReq ==
    [route |-> "none", base |-> Undef, apiKey |-> Undef, class |-> Undef,
     query |-> Undef, content |-> Undef, id |-> Undef, type |-> Undef, alpha |-> Undef,
     certainty |-> Undef, limit |-> Undef]

NoLoc == [meta |-> Undef, classes |-> Arr(<<>>), classDetails |-> Obj(<<>>), total |-> Num(0)]

(* ------------------------------ the inputs ---------------------------- *)

\* a required parameter: absent, empty, or given
Given(v) == {Undef, Str(<<>>), v}

BaseUrl == Str(<<"http:", "/", "/", "w">>)
ApiKey == Str(<<"k">>)

\* the alphabet of free-text queries
QueryChars == {BS, DQ, NL, CR, "n"}

\* texts of at most MaxLen characters
QueryTexts == UNION {[1..n -> QueryChars] : n \in 0..MaxLen}

\* query values that are not text
NonTextQueries ==
    { Num(7), Bool(TRUE), Arr(<<Str(<<"a", DQ, "b">>)>>),
      Arr(<<Str(<<"a">>), Str(<<BS>>)>>), Obj(<<P("a", Num(1))>>) }

TypeValues == {Undef, Str(<<"hybrid">>), Str(<<"nearText">>), Str(<<"bm25">>)}

\* the two search types the handler names
SearchTypes == {Str(<<"hybrid">>), Str(<<"nearText">>)}

AlphaValues == {Undef, Num(0), Num(1), Dec(7), Str(<<"high">>)}

\* a class name holding a double quote
QuotedClass == <<"Doc", DQ>>

\* req.body.class of /list and /search: absent, empty, a stored class, or a
\* name with a character that ends a GraphQL string
ClassValues == Given(Str(ListClass)) \cup {Str(QuotedClass)}

\* req.body.certainty and req.body.limit of a nearText search: absent, or 0.8
\* and 3
CertaintyValues == {Undef, Dec(8)}
LimitValues == {Undef, Num(3)}

ListRequests ==
    { [NoReq EXCEPT !.route = "/list", !.base = b, !.class = c, !.apiKey = k] :
        b \in Given(BaseUrl), c \in ClassValues, k \in {Undef, ApiKey} }

AddRequests ==
    { [NoReq EXCEPT !.route = "/add", !.base = b, !.class = c, !.query = q,
                    !.content = t, !.apiKey = ApiKey] :
        b \in Given(BaseUrl), c \in Given(Str(ListClass)),
        q \in Given(Str(<<"q">>)), t \in Given(Str(<<"c">>)) }

\* req.body.id of /delete and /object: absent, empty, the id of a stored
\* object, or a text holding a path separator and a query mark
IdValues == Given(Str(<<"x">>)) \cup {Str(<<"x", "/", "y", "?", "z">>)}

DeleteRequests ==
    { [NoReq EXCEPT !.route = "/delete", !.base = b, !.id = i, !.apiKey = ApiKey] :
        b \in Given(BaseUrl), i \in IdValues }

ObjectRequests ==
    { [NoReq EXCEPT !.route = "/object", !.base = b, !.id = i, !.apiKey = ApiKey] :
        b \in Given(BaseUrl), i \in IdValues }

SearchRequests ==
    { [NoReq EXCEPT !.route = "/search", !.base = b, !.class = c, !.query = q,
                    !.apiKey = ApiKey] :
        b \in Given(BaseUrl), c \in ClassValues, q \in Given(Str(<<"q">>)) }
    \cup
    { [NoReq EXCEPT !.route = "/search", !.base = BaseUrl, !.class = Str(ListClass),
                    !.query = q, !.type = t, !.apiKey = ApiKey] :
        q \in {Str(x) : x \in QueryTexts}, t \in SearchTypes }
    \cup
    { [NoReq EXCEPT !.route = "/search", !.base = BaseUrl, !.class = Str(ListClass),
                    !.query = q, !.type = t, !.apiKey = ApiKey] :
        q \in NonTextQueries, t \in TypeValues }
    \cup
    { [NoReq EXCEPT !.route = "/search", !.base = BaseUrl, !.class = Str(ListClass),
                    !.query = Str(<<"q">>), !.type = t, !.alpha = a, !.apiKey = ApiKey] :
        t \in TypeValues, a \in AlphaValues }
    \cup
    { [NoReq EXCEPT !.route = "/search", !.base = BaseUrl, !.class = Str(ListClass),
                    !.query = Str(<<"q">>), !.type = Str(<<"nearText">>),
                    !.certainty = c, !.limit = l, !.apiKey = ApiKey] :
        c \in CertaintyValues, l \in LimitValues }

ClassesRequests ==
    { [NoReq EXCEPT !.route = "/classes", !.base = b, !.apiKey = ApiKey] :
        b \in Given(BaseUrl) }

InfoRequests ==
    { [NoReq EXCEPT !.route = "/info", !.base = b, !.apiKey = ApiKey] :
        b \in Given(BaseUrl) }

Requests ==
    ListRequests \cup AddRequests \cup DeleteRequests \cup ObjectRequests
    \cup SearchRequests \cup ClassesRequests \cup InfoRequests

\* one request has arrived
Init ==
    /\ \E q \in Requests : req = [r \in Reqs |-> IF r = 1 THEN q ELSE NoReq]
    /\ pc = [r \in Reqs |-> IF r = 1 THEN "start" ELSE "idle"]
    /\ calls = [r \in Reqs |-> <<>>]
    /\ resp = [r \in Reqs |-> <<>>]
    /\ loc = [r \in Reqs |-> NoLoc]

(* --------------------------- handler plumbing ------------------------- *)

ErrorBody(message) == Obj(<<P("error", Str(message))>>)

\* res.status(400).json({ error: message })
Reject400(message) == [status |-> 400, body |-> ErrorBody(<<message>>)]

\* res.json(v)
Json(v) == [status |-> 200, body |-> v]

\* res.sendStatus(200)
SendStatus200 == [status |-> 200, body |-> Str(<<"OK">>)]

\* asyncHandler: whatever the handler throws becomes a 500 with its message
asyncHandler(e) == [status |-> 500, body |-> ErrorBody(e.message)]

\* the call record once its response has been handled by weaviateFetch
Settled(call, res) ==
    LET out == weaviateFetch(call.path, res)
    IN [call EXCEPT !.state = IF out.threw THEN "threw" ELSE "returned",
                    !.res = res, !.out = out]

GraphqlPath == <<"/", "v1", "/", "graphql">>
ObjectsPath == <<"/", "v1", "/", "objects">>

\* the handler of r sends response a and ends
Finish(r, a) ==
    /\ resp' = [resp EXCEPT ![r] = Append(@, a)]
    /\ pc' = [pc EXCEPT ![r] = "done"]

\* the handler of r suspends on a remote call
Await(r) == pc' = [pc EXCEPT ![r] = "await"] /\ UNCHANGED resp

\* the handler of r is suspended on its latest call
Awaiting(r, route) ==
    /\ pc[r] = "await"
    /\ req[r].route = route

Latest(r) == calls[r][Len(calls[r])]

\* the latest call of r settles with response res
SettleLatest(r, res) == [calls EXCEPT ![r][Len(calls[r])] = Settled(@, res)]

\* the message of the first falsy parameter among checks, a sequence of
\* <<value, message>>; "" when every one is given
RECURSIVE FirstMissing(_)
FirstMissing(checks) ==
    IF checks = <<>> THEN ""
    ELSE IF ~Truthy(checks[1][1]) THEN checks[1][2]
    ELSE FirstMissing(Tail(checks))

\* the synchronous start of a handler: answer 400 on the first missing
\* parameter, else issue the first remote call and suspend on it
Begin(r, checks, call) ==
    /\ pc[r] = "start"
    /\ IF FirstMissing(checks) # ""
       THEN Finish(r, Reject400(FirstMissing(checks))) /\ UNCHANGED calls
       ELSE calls' = [calls EXCEPT ![r] = Append(@, call)] /\ Await(r)
    /\ UNCHANGED <<req, loc>>

\* { query: gql } as the body of a GraphQL POST
GraphqlBody(gql) == JsonText(Obj(<<P("query", Str(gql))>>))

\* a faulty variant of GetResult without the ?? [] default
GetResult_NoDefault(data, className) ==
    Get(GetP(GetP(data, "data"), "Get"), JSString(className))

\* a faulty variant of GetResult that flattens each record to {query, content, id}
GetResult_Flat(data, className) ==
    LET list == Coalesce(Get(GetP(GetP(data, "data"), "Get"), JSString(className)), Arr(<<>>))
    IN Arr([i \in DOMAIN list[2] |->
              Obj(<<P("query", GetP(list[2][i], "query")),
                    P("content", GetP(list[2][i], "content")),
                    P("id", GetP(GetP(list[2][i], "_additional"), "id"))>>)])

\* data?.data?.Get?.[className] ?? []
GetResult(data, className) ==
    Coalesce(Get(GetP(GetP(data, "data"), "Get"), JSString(className)), Arr(<<>>))

\* checkGraphQLErrors: whether the parsed body carries a non-empty errors list
checkGraphQLErrors(data) ==
    LET errors == GetP(data, "errors")
    IN Tag(errors) = "arr" /\ Len(errors[2]) > 0

(* -------------------------------- /list ------------------------------- *)

ListStart(r) ==
    /\ req[r].route = "/list"
    /\ Begin(r, <<<<req[r].base, "Missing base URL">>,
                  <<req[r].class, "Missing class name">>>>,
             FetchRequest(req[r].base, GraphqlPath, req[r].apiKey, "POST",
                 GraphqlBody(buildListQuery(req[r].class, Num(DEFAULT_LIST_LIMIT)))))

\* a faulty variant of ListSettle that answers a failed remote call with an empty list
ListSettle_EmptyOnError(r) ==
    /\ Awaiting(r, "/list")
    /\ \E res \in Answers(req[r].base, FailingResponses, GetDocs(ListClass)) :
        LET out == weaviateFetch(Latest(r).path, res)
        IN /\ calls' = SettleLatest(r, res)
           /\ Finish(r, IF out.threw THEN Json(Arr(<<>>))
                        ELSE Json(GetResult(out.value, req[r].class)))
    /\ UNCHANGED <<req, loc>>

ListSettle(r) ==
    /\ Awaiting(r, "/list")
    /\ \E res \in Answers(req[r].base, FailingResponses, GetDocs(ListClass)) :
        LET out == weaviateFetch(Latest(r).path, res)
        IN /\ calls' = SettleLatest(r, res)
           /\ Finish(r, IF out.threw THEN asyncHandler(out.error)
                        ELSE Json(GetResult(out.value, req[r].class)))
    /\ UNCHANGED <<req, loc>>

(* -------------------------------- /add -------------------------------- *)

AddStart(r) ==
    /\ req[r].route = "/add"
    /\ Begin(r, <<<<req[r].base, "Missing base URL">>,
                  <<req[r].class, "Missing class name">>,
                  <<req[r].query, "Missing query">>,
                  <<req[r].content, "Missing content">>>>,
             FetchRequest(req[r].base, ObjectsPath, req[r].apiKey, "POST",
                 JsonText(Obj(<<P("class", req[r].class),
                                P("properties", Obj(<<P("query", req[r].query),
                                                      P("content", req[r].content)>>))>>))))

\* a faulty variant of AddSettle whose handler is not wrapped by asyncHandler: what
\* the remote call throws is an unhandled rejection and nothing is sent
AddSettle_Unwrapped(r) ==
    /\ Awaiting(r, "/add")
    /\ \E res \in Answers(req[r].base, FailingResponses, ObjectDocs) :
        LET out == weaviateFetch(Latest(r).path, res)
        IN /\ calls' = SettleLatest(r, res)
           /\ IF out.threw
              THEN pc' = [pc EXCEPT ![r] = "done"] /\ UNCHANGED resp
              ELSE Finish(r, SendStatus200)
    /\ UNCHANGED <<req, loc>>

AddSettle(r) ==
    /\ Awaiting(r, "/add")
    /\ \E res \in Answers(req[r].base, FailingResponses, ObjectDocs) :
        LET out == weaviateFetch(Latest(r).path, res)
        IN /\ calls' = SettleLatest(r, res)
           /\ Finish(r, IF out.threw THEN asyncHandler(out.error) ELSE SendStatus200)
    /\ UNCHANGED <<req, loc>>

(* ------------------------------- /delete ------------------------------ *)

DeleteStart(r) ==
    /\ req[r].route = "/delete"
    /\ Begin(r, <<<<req[r].base, "Missing base URL">>,
                  <<req[r].id, "Missing object id">>>>,
             FetchRequest(req[r].base, ObjectsPath \o <<"/">> \o JSString(req[r].id),
                          req[r].apiKey, "DELETE", <<>>))

DeleteSettle(r) ==
    /\ Awaiting(r, "/delete")
    /\ \E res \in Answers(req[r].base, FailingResponses, ObjectDocs) :
        LET out == weaviateFetch(Latest(r).path, res)
        IN /\ calls' = SettleLatest(r, res)
           /\ Finish(r, IF out.threw THEN asyncHandler(out.error) ELSE SendStatus200)
    /\ UNCHANGED <<req, loc>>

(* ------------------------------- /object ------------------------------ *)

\* encodeURIComponent, character by character
EncodeChar(c) ==
    CASE c = "/" -> "%2F"
      [] c = "?" -> "%3F"
      [] c = "&" -> "%26"
      [] c = "=" -> "%3D"
      [] c = "#" -> "%23"
      [] c = ":" -> "%3A"
      [] c = SP -> "%20"
      [] c = DQ -> "%22"
      [] c = BS -> "%5C"
      [] c = NL -> "%0A"
      [] c = CR -> "%0D"
      [] OTHER -> c

encodeURIComponent(v) == [i \in DOMAIN JSString(v) |-> EncodeChar(JSString(v)[i])]

VectorPath(id) == ObjectsPath \o <<"/">> \o encodeURIComponent(id) \o <<"?", "include=vector">>
PlainPath(id) == ObjectsPath \o <<"/">> \o encodeURIComponent(id)

ObjectStart(r) ==
    /\ req[r].route = "/object"
    /\ Begin(r, <<<<req[r].base, "Missing base URL">>,
                  <<req[r].id, "Missing object id">>>>,
             FetchRequest(req[r].base, VectorPath(req[r].id), req[r].apiKey, "GET", <<>>))

\* a faulty variant of ObjectFirstSettle whose catch retries only after a failed
\* HTTP status: a body that does not parse, or a rejected fetch, escapes
ObjectFirstSettle_RetryOnStatusOnly(r) ==
    /\ Awaiting(r, "/object")
    /\ Len(calls[r]) = 1
    /\ \E res \in Answers(req[r].base, FailingResponses, ObjectDocs) :
        LET out == weaviateFetch(Latest(r).path, res)
        IN IF out.threw /\ res.net = "http" /\ ~ResOk(res)
           THEN /\ calls' = [calls EXCEPT ![r] =
                      Append(SettleLatest(r, res)[r],
                             FetchRequest(req[r].base, PlainPath(req[r].id),
                                          req[r].apiKey, "GET", <<>>))]
                /\ UNCHANGED <<pc, resp>>
           ELSE /\ calls' = SettleLatest(r, res)
                /\ Finish(r, IF out.threw THEN asyncHandler(out.error) ELSE Json(out.value))
    /\ UNCHANGED <<req, loc>>

\* the first attempt settles: its value is the answer, or the catch block
\* issues the second attempt
ObjectFirstSettle(r) ==
    /\ Awaiting(r, "/object")
    /\ Len(calls[r]) = 1
    /\ \E res \in Answers(req[r].base, FailingResponses, ObjectDocs) :
        LET out == weaviateFetch(Latest(r).path, res)
        IN IF out.threw
           THEN /\ calls' = [calls EXCEPT ![r] =
                      Append(SettleLatest(r, res)[r],
                             FetchRequest(req[r].base, PlainPath(req[r].id),
                                          req[r].apiKey, "GET", <<>>))]
                /\ UNCHANGED <<pc, resp>>
           ELSE /\ calls' = SettleLatest(r, res)
                /\ Finish(r, Json(out.value))
    /\ UNCHANGED <<req, loc>>

\* the second attempt settles: its value is the answer, or its error escapes
ObjectSecondSettle(r) ==
    /\ Awaiting(r, "/object")
    /\ Len(calls[r]) = 2
    /\ \E res \in Answers(req[r].base, FailingResponses, ObjectDocs) :
        LET out == weaviateFetch(Latest(r).path, res)
        IN /\ calls' = SettleLatest(r, res)
           /\ Finish(r, IF out.threw THEN asyncHandler(out.error) ELSE Json(out.value))
    /\ UNCHANGED <<req, loc>>

(* ------------------------------- /search ------------------------------ *)

\* the query text /search builds for request body q
SearchGql(q) == buildSearchQuery(q.class, q.query, q.type, Obj(<<P("alpha", q.alpha)>>))

\* a faulty variant of SearchStart without the check of query
SearchStart_NoQueryCheck(r) ==
    /\ req[r].route = "/search"
    /\ Begin(r, <<<<req[r].base, "Missing base URL">>,
                  <<req[r].class, "Missing class name">>>>,
             FetchRequest(req[r].base, GraphqlPath, req[r].apiKey, "POST",
                          GraphqlBody(SearchGql(req[r]))))

SearchStart(r) ==
    /\ req[r].route = "/search"
    /\ Begin(r, <<<<req[r].base, "Missing base URL">>,
                  <<req[r].class, "Missing class name">>,
                  <<req[r].query, "Missing query">>>>,
             FetchRequest(req[r].base, GraphqlPath, req[r].apiKey, "POST",
                          GraphqlBody(SearchGql(req[r]))))

SearchSettle(r) ==
    /\ Awaiting(r, "/search")
    /\ \E res \in Answers(req[r].base, FailingResponses, GetDocs(ListClass)) :
        LET out == weaviateFetch(Latest(r).path, res)
        IN /\ calls' = SettleLatest(r, res)
           /\ Finish(r, IF out.threw THEN asyncHandler(out.error)
                        ELSE Json(GetResult(out.value, req[r].class)))
    /\ UNCHANGED <<req, loc>>

(* ------------------------------- /classes ----------------------------- *)

TypeError == [name |-> "TypeError", message |-> <<"Cannot", SP, "read", SP, "properties">>]

\* a faulty variant of ClassNamesOf that reads .fields of the type found without ?.
ClassNamesOf_NoOptional(json) ==
    LET types == GetP(GetP(GetP(json, "data"), "__schema"), "types")
    IN IF Tag(types) # "arr" THEN Throw(TypeError)
       ELSE LET hits == {i \in DOMAIN types[2] :
                            GetP(types[2][i], "name") = Str(<<"GetObjectsObj">>)}
            IN IF hits = {} THEN Throw(TypeError)
               ELSE LET fields == GetP(types[2][CHOOSE i \in hits : \A j \in hits : i <= j],
                                       "fields")
                    IN IF Tag(fields) \in {"undef", "null"} THEN Return(Undef)
                       ELSE IF Tag(fields) # "arr" THEN Throw(TypeError)
                       ELSE Return(Arr([i \in DOMAIN fields[2] |->
                                          GetP(fields[2][i], "name")]))

\* json.data.__schema.types.find(type => type.name === "GetObjectsObj")?.fields,
\* then types?.map(type => type.name); the property reads on json are not
\* optional and throw on a missing level
ClassNamesOf(json) ==
    LET types == GetP(GetP(GetP(json, "data"), "__schema"), "types")
    IN IF Tag(types) # "arr" THEN Throw(TypeError)
       ELSE LET hits == {i \in DOMAIN types[2] :
                            GetP(types[2][i], "name") = Str(<<"GetObjectsObj">>)}
                fields == IF hits = {} THEN Undef
                          ELSE GetP(types[2][CHOOSE i \in hits : \A j \in hits : i <= j],
                                    "fields")
            IN IF Tag(fields) \in {"undef", "null"} THEN Return(Undef)
               ELSE IF Tag(fields) # "arr" THEN Throw(TypeError)
               ELSE Return(Arr([i \in DOMAIN fields[2] |-> GetP(fields[2][i], "name")]))

ClassesStart(r) ==
    /\ req[r].route = "/classes"
    /\ Begin(r, <<<<req[r].base, "Missing base URL">>>>,
             FetchRequest(req[r].base, GraphqlPath, req[r].apiKey, "POST",
                          GraphqlBody(buildClassesQuery)))

ClassesSettle(r) ==
    /\ Awaiting(r, "/classes")
    /\ \E res \in Answers(req[r].base, FailingResponses, ClassesDocs) :
        LET out == weaviateFetch(Latest(r).path, res)
            names == ClassNamesOf(out.value)
        IN /\ calls' = SettleLatest(r, res)
           /\ Finish(r, IF out.threw THEN asyncHandler(out.error)
                        ELSE IF names.threw THEN asyncHandler(names.error)
                        ELSE Json(names.value))
    /\ UNCHANGED <<req, loc>>

(* -------------------------------- /info ------------------------------- *)

MetaPath == <<"/", "v1", "/", "meta">>
SchemaPath == <<"/", "v1", "/", "schema">>

\* c.class || c.name || c
ClassNameOf(c) == OrElse(OrElse(GetP(c, "class"), GetP(c, "name")), c)

\* the details object of a schema entry, before its count is known
DetailsOf(c) ==
    Obj(<<P("name", ClassNameOf(c)),
          P("vectorizer", OrElse(GetP(c, "vectorizer"), Null)),
          P("vectorIndexType", OrElse(GetP(c, "vectorIndexType"), Null)),
          P("properties",
            IF Tag(GetP(c, "properties")) = "arr"
            THEN Arr([i \in DOMAIN GetP(c, "properties")[2] |->
                        GetP(GetP(c, "properties")[2][i], "name")])
            ELSE Undef),
          P("count", Null)>>)

\* a faulty variant of aggregateCountForClass that reports 0 where it finds no number
aggregateCountForClass_ZeroDefault(className, data) ==
    LET count == GetP(GetP(At(Get(GetP(GetP(data, "data"), "Aggregate"),
                                  JSString(className)), 0), "meta"), "count")
    IN IF TypeOf(count) = "number" THEN count ELSE Num(0)

\* the value aggregateCountForClass returns for the parsed body data
aggregateCountForClass(className, data) ==
    LET count == GetP(GetP(At(Get(GetP(GetP(data, "data"), "Aggregate"),
                                  JSString(className)), 0), "meta"), "count")
    IN IF TypeOf(count) = "number" THEN count ELSE Null

\* the body of the /info response
InfoBody(l) ==
    Obj(<<P("meta", l.meta),
          P("classes", Arr([i \in DOMAIN l.classes[2] |->
                              OrElse(GetP(l.classes[2][i], "class"),
                                     GetP(l.classes[2][i], "name"))])),
          P("classDetails", l.classDetails),
          P("total", l.total)>>)

\* the count call for schema entry c
CountRequest(q, c) ==
    FetchRequest(q.base, GraphqlPath, q.apiKey, "POST",
                 GraphqlBody(buildAggregateQuery(ClassNameOf(c))))

InfoStart(r) ==
    /\ req[r].route = "/info"
    /\ Begin(r, <<<<req[r].base, "Missing base URL">>>>,
             FetchRequest(req[r].base, MetaPath, req[r].apiKey, "GET", <<>>))

\* the meta call settles; on success the schema call is issued
InfoMetaSettle(r) ==
    /\ Awaiting(r, "/info")
    /\ Len(calls[r]) = 1
    /\ \E res \in Answers(req[r].base, FailingResponses, MetaDocs) :
        LET out == weaviateFetch(Latest(r).path, res)
        IN IF out.threw
           THEN /\ calls' = SettleLatest(r, res)
                /\ Finish(r, asyncHandler(out.error))
                /\ UNCHANGED loc
           ELSE /\ calls' = [calls EXCEPT ![r] =
                      Append(SettleLatest(r, res)[r],
                             FetchRequest(req[r].base, SchemaPath, req[r].apiKey, "GET", <<>>))]
                /\ loc' = [loc EXCEPT ![r].meta = out.value]
                /\ UNCHANGED <<pc, resp>>
    /\ UNCHANGED req

\* the schema call settles; on success classes.map issues one count call per
\* entry, in schema order, and the handler suspends on Promise.all
InfoSchemaSettle(r) ==
    /\ Awaiting(r, "/info")
    /\ Len(calls[r]) = 2
    /\ \E res \in Answers(req[r].base, FailingResponses, SchemaDocs) :
        LET out == weaviateFetch(Latest(r).path, res)
            classes == OrElse(GetP(out.value, "classes"), Arr(<<>>))
            l == [loc[r] EXCEPT !.classes = classes]
        IN IF out.threw
           THEN /\ calls' = SettleLatest(r, res)
                /\ Finish(r, asyncHandler(out.error))
                /\ UNCHANGED loc
           ELSE /\ calls' = [calls EXCEPT ![r] =
                      SettleLatest(r, res)[r]
                      \o [i \in DOMAIN classes[2] |-> CountRequest(req[r], classes[2][i])]]
                /\ loc' = [loc EXCEPT ![r] = l]
                /\ IF classes[2] = <<>>
                   THEN Finish(r, Json(InfoBody(l)))
                   ELSE pc' = [pc EXCEPT ![r] = "fanout"] /\ UNCHANGED resp
    /\ UNCHANGED req

\* the locals after the count call of schema entry c has settled with out:
\* the try block stores the count and adds it to total, the catch block only
\* logs, and then the entry is stored under its class name
AfterCount(l, c, out) ==
    LET count == IF out.threw THEN Null
                 ELSE aggregateCountForClass(ClassNameOf(c), out.value)
        details == SetProp(DetailsOf(c), <<"count">>, count)
    IN [l EXCEPT !.total = IF TypeOf(count) = "number" THEN Num(@[2] + count[2]) ELSE @,
                 !.classDetails = SetProp(@, JSString(ClassNameOf(c)), details)]

\* a faulty variant of InfoCountSettle without the try/catch around the count call:
\* a failing count call rejects Promise.all and the error escapes the handler
InfoCountSettle_NoCatch(r) ==
    /\ pc[r] = "fanout"
    /\ req[r].route = "/info"
    /\ \E i \in DOMAIN calls[r] :
        /\ calls[r][i].state = "pending"
        /\ LET c == loc[r].classes[2][i - 2]
           IN \E res \in Answers(req[r].base, CountFailures,
                                  AggregateDocs(JSString(ClassNameOf(c)))) :
                LET done == Settled(calls[r][i], res)
                    l == AfterCount(loc[r], c, done.out)
                    cs == [calls[r] EXCEPT ![i] = done]
                IN /\ calls' = [calls EXCEPT ![r] = cs]
                   /\ loc' = [loc EXCEPT ![r] = l]
                   /\ IF done.out.threw
                      THEN Finish(r, asyncHandler(done.out.error))
                      ELSE IF \A j \in DOMAIN cs : cs[j].state # "pending"
                      THEN Finish(r, Json(InfoBody(l)))
                      ELSE UNCHANGED <<pc, resp>>
    /\ UNCHANGED req

\* a faulty variant of InfoCountSettle that answers without joining: the response
\* is sent when the first count call settles
InfoCountSettle_NoJoin(r) ==
    /\ pc[r] = "fanout"
    /\ req[r].route = "/info"
    /\ \E i \in DOMAIN calls[r] :
        /\ calls[r][i].state = "pending"
        /\ LET c == loc[r].classes[2][i - 2]
           IN \E res \in Answers(req[r].base, CountFailures,
                                  AggregateDocs(JSString(ClassNameOf(c)))) :
                LET done == Settled(calls[r][i], res)
                    l == AfterCount(loc[r], c, done.out)
                    cs == [calls[r] EXCEPT ![i] = done]
                IN /\ calls' = [calls EXCEPT ![r] = cs]
                   /\ loc' = [loc EXCEPT ![r] = l]
                   /\ Finish(r, Json(InfoBody(l)))
    /\ UNCHANGED req

\* one pending count call settles, in any order; when it was the last one
\* Promise.all resolves and the response is sent
\* a faulty variant of InfoCountSettle whose total is one variable of the module,
\* shared by all requests, instead of a local of the handler
InfoCountSettle_SharedTotal(r) ==
    /\ pc[r] = "fanout"
    /\ req[r].route = "/info"
    /\ \E i \in DOMAIN calls[r] :
        /\ calls[r][i].state = "pending"
        /\ LET c == loc[r].classes[2][i - 2]
           IN \E res \in Answers(req[r].base, CountFailures,
                                  AggregateDocs(JSString(ClassNameOf(c)))) :
                LET done == Settled(calls[r][i], res)
                    l == AfterCount([loc[r] EXCEPT !.total = loc[1].total], c, done.out)
                    cs == [calls[r] EXCEPT ![i] = done]
                IN /\ calls' = [calls EXCEPT ![r] = cs]
                   /\ loc' = [loc EXCEPT ![r] = l, ![1].total = l.total]
                   /\ IF \A j \in DOMAIN cs : cs[j].state # "pending"
                      THEN Finish(r, Json(InfoBody(l)))
                      ELSE UNCHANGED <<pc, resp>>
    /\ UNCHANGED req

InfoCountSettle(r) ==
    /\ pc[r] = "fanout"
    /\ req[r].route = "/info"
    /\ \E i \in DOMAIN calls[r] :
        /\ calls[r][i].state = "pending"
        /\ LET c == loc[r].classes[2][i - 2]
           IN \E res \in Answers(req[r].base, CountFailures,
                                  AggregateDocs(JSString(ClassNameOf(c)))) :
                LET done == Settled(calls[r][i], res)
                    l == AfterCount(loc[r], c, done.out)
                    cs == [calls[r] EXCEPT ![i] = done]
                IN /\ calls' = [calls EXCEPT ![r] = cs]
                   /\ loc' = [loc EXCEPT ![r] = l]
                   /\ IF \A j \in DOMAIN cs : cs[j].state # "pending"
                      THEN Finish(r, Json(InfoBody(l)))
                      ELSE UNCHANGED <<pc, resp>>
    /\ UNCHANGED req

(* ----------------------------- specification -------------------------- *)

Next ==
    \E r \in Reqs :
        \/ ListStart(r) \/ ListSettle(r)
        \/ AddStart(r) \/ AddSettle(r)
        \/ DeleteStart(r) \/ DeleteSettle(r)
        \/ ObjectStart(r) \/ ObjectFirstSettle(r) \/ ObjectSecondSettle(r)
        \/ SearchStart(r) \/ SearchSettle(r)
        \/ ClassesStart(r) \/ ClassesSettle(r)
        \/ InfoStart(r) \/ InfoMetaSettle(r) \/ InfoSchemaSettle(r) \/ InfoCountSettle(r)

Spec == Init /\ [][Next]_vars

\* one request of each route, all parameters given, for the instance at base
RequestsAt(base, apiKey) ==
    LET q == [NoReq EXCEPT !.base = base, !.apiKey = apiKey]
    IN { [q EXCEPT !.route = "/list", !.class = Str(ListClass)],
         [q EXCEPT !.route = "/add", !.class = Str(ListClass), !.query = Str(<<"q">>),
                   !.content = Str(<<"c">>)],
         [q EXCEPT !.route = "/delete", !.id = Str(<<"x">>)],
         [q EXCEPT !.route = "/object", !.id = Str(<<"x">>)],
         [q EXCEPT !.route = "/search", !.class = Str(ListClass), !.query = Str(<<"q">>)],
         [q EXCEPT !.route = "/classes"],
         [q EXCEPT !.route = "/info"] }

\* two requests have arrived, for two instances with two keys; their handlers
\* run interleaved at their awaits
InitTwo ==
    /\ \E qa \in RequestsAt(BaseA, KeyA), qb \in RequestsAt(BaseB, KeyB) :
          req = [r \in Reqs |-> IF r = 1 THEN qa ELSE qb]
    /\ pc = [r \in Reqs |-> "start"]
    /\ calls = [r \in Reqs |-> <<>>]
    /\ resp = [r \in Reqs |-> <<>>]
    /\ loc = [r \in Reqs |-> NoLoc]

SpecTwo == InitTwo /\ [][Next]_vars

(* ------------------------- notions the claims use --------------------- *)

\* the call has been answered
HasSettled(c) == c.res.net # "none"

\* the answer is a failure of the remote call: a transport error, a
\* non-success status, or a success status with a body that is not JSON
FailedCall(c) ==
    \/ c.res.net = "reject"
    \/ c.res.net = "http" /\ c.res.status \notin 200..299
    \/ c.res.net = "http" /\ c.res.status \in 200..299 /\ ~JsonParse(c.res.text).ok

\* the one response of a request is a success / a failure with a message
Succeeded(r) == Len(resp[r]) = 1 /\ resp[r][1].status = 200

FailedWithMessage(r, status) ==
    /\ Len(resp[r]) = 1
    /\ resp[r][1].status = status
    /\ Tag(GetP(resp[r][1].body, "error")) = "str"
    /\ GetP(resp[r][1].body, "error")[2] # <<>>

VectorFlag == <<"?", "include=vector">>

\* the path ends in ?include=vector
WithVectorFlag(path) ==
    Len(path) > 2 /\ SubSeq(path, Len(path) - 1, Len(path)) = VectorFlag

(* -------------------------------- C1 ---------------------------------- *)

\* C1: for every /object request that passes validation, the first remote
\* call is the path with ?include=vector; the same path without the flag is
\* called if and only if the first call has failed (status, body or
\* transport), once and after it; there are never more than two calls; a
\* first success ends the request with that one call, and two failures end
\* it as a failure.
C1_ObjectFallback ==
    \A r \in Reqs :
        (req[r].route = "/object" /\ calls[r] # <<>>) =>
            LET cs == calls[r]
            IN /\ WithVectorFlag(cs[1].path)
               /\ Len(cs) <= 2
               /\ (Len(cs) = 2) <=> (HasSettled(cs[1]) /\ FailedCall(cs[1]))
               /\ Len(cs) = 2 => cs[2].path \o VectorFlag = cs[1].path
               /\ (HasSettled(cs[1]) /\ ~FailedCall(cs[1])) =>
                      pc[r] = "done" /\ Succeeded(r)
               /\ (Len(cs) = 2 /\ HasSettled(cs[2]) /\ FailedCall(cs[2])) =>
                      pc[r] = "done" /\ FailedWithMessage(r, 500)
               /\ (Len(cs) = 2 /\ ~HasSettled(cs[2])) => resp[r] = <<>>

\* both attempts of an /object request were made, the first failing on a body
\* that is not JSON, and the request ended as a failure
C1_Witness ==
    \E r \in Reqs :
        /\ req[r].route = "/object"
        /\ Len(calls[r]) = 2
        /\ calls[r][1].res.net = "http" /\ calls[r][1].res.status = 200
        /\ FailedCall(calls[r][1]) /\ FailedCall(calls[r][2])
        /\ HasSettled(calls[r][2])
        /\ FailedWithMessage(r, 500)

(* ------------------------------ C2 - C4 ------------------------------- *)

\* the schema entries of an /info request whose schema call has returned
EntriesOf(r) == OrElse(GetP(calls[r][2].out.value, "classes"), Arr(<<>>))[2]

\* the class name of entry i, as a property key
NameOf(r, i) == JSString(ClassNameOf(EntriesOf(r)[i]))

\* the count obtained by the count call of entry i: the number the remote
\* reported, or null when the call failed or reported no number
ObtainedCount(r, i) ==
    LET c == calls[r][i + 2]
    IN IF FailedCall(c) THEN Null
       ELSE aggregateCountForClass(ClassNameOf(EntriesOf(r)[i]), c.out.value)

RECURSIVE SumNumbers(_)
\* the sum of the numbers in a sequence of counts, null counting nothing
SumNumbers(counts) ==
    IF counts = <<>> THEN 0
    ELSE (IF TypeOf(Head(counts)) = "number" THEN Head(counts)[2] ELSE 0)
         + SumNumbers(Tail(counts))

\* an /info request whose meta and schema calls succeeded and whose handler
\* has ended
InfoEnded(r) ==
    /\ req[r].route = "/info"
    /\ pc[r] = "done"
    /\ Len(calls[r]) >= 2
    /\ calls[r][1].state = "returned"
    /\ calls[r][2].state = "returned"

\* C2: when the meta and schema calls of /info succeed, count calls that fail
\* never fail the operation: the response is a success with one classDetails
\* entry for every schema class; a class all of whose count calls failed has
\* count null, any other class has a count its own calls obtained, and total
\* is the sum of the counts obtained as numbers.
C2_PartialCountFailure ==
    \A r \in Reqs :
        InfoEnded(r) =>
            /\ Succeeded(r)
            /\ LET body == resp[r][1].body
                   details == GetP(body, "classDetails")
                   idx == DOMAIN EntriesOf(r)
               IN /\ Keys(details) = {NameOf(r, i) : i \in idx}
                  /\ \A i \in idx :
                        LET mine == {j \in idx : NameOf(r, j) = NameOf(r, i)}
                            count == GetP(Get(details, NameOf(r, i)), "count")
                        IN /\ count \in {ObtainedCount(r, j) : j \in mine}
                           /\ (\A j \in mine : FailedCall(calls[r][j + 2])) => count = Null
                  /\ GetP(body, "total") =
                        Num(SumNumbers([i \in idx |-> ObtainedCount(r, i)]))

\* two classes, the count call of the first failed and that of the second
\* reported a positive number: both entries are there and total is that number
C2_Witness ==
    \E r \in Reqs :
        /\ InfoEnded(r) /\ Succeeded(r)
        /\ Len(EntriesOf(r)) = 2
        /\ NameOf(r, 1) # NameOf(r, 2)
        /\ FailedCall(calls[r][3])
        /\ TypeOf(ObtainedCount(r, 2)) = "number" /\ ObtainedCount(r, 2)[2] > 0
        /\ Keys(GetP(resp[r][1].body, "classDetails")) = {NameOf(r, 1), NameOf(r, 2)}
        /\ GetP(Get(GetP(resp[r][1].body, "classDetails"), NameOf(r, 1)), "count") = Null
        /\ GetP(resp[r][1].body, "total") = ObtainedCount(r, 2)

RECURSIVE InSchemaOrder(_, _, _)
\* the locals /info ends with when the count calls of request r settle in
\* schema order, entry i first, with the outcomes they had
InSchemaOrder(r, l, i) ==
    IF i > Len(EntriesOf(r)) THEN l
    ELSE InSchemaOrder(r, AfterCount(l, EntriesOf(r)[i], calls[r][i + 2].out), i + 1)

\* an object as a mapping from its keys to their values
AsMap(o) == [k \in Keys(o) |-> Get(o, k)]

\* C3: for a fixed schema and fixed outcomes of the count calls, the mapping
\* from class name to count and the total of the /info response are those of
\* every other completion order, here of the schema order.
C3_OrderIndependent ==
    \A r \in Reqs :
        (InfoEnded(r) /\ Succeeded(r)) =>
            LET body == resp[r][1].body
                ref == InSchemaOrder(r, [NoLoc EXCEPT !.classes = Arr(EntriesOf(r))], 1)
            IN /\ AsMap(GetP(body, "classDetails")) = AsMap(ref.classDetails)
               /\ GetP(body, "total") = ref.total

\* the total alone does not depend on the completion order
C3_TotalOrderIndependent ==
    \A r \in Reqs :
        (InfoEnded(r) /\ Succeeded(r)) =>
            GetP(resp[r][1].body, "total") =
                InSchemaOrder(r, [NoLoc EXCEPT !.classes = Arr(EntriesOf(r))], 1).total

\* C4: in /info the schema call is issued only after the meta call has
\* succeeded, the count calls only after the schema call has succeeded, one
\* count call per schema class entry, and the response after meta and schema
\* succeeded is sent only when every count call has settled.
C4_InfoOrdering ==
    \A r \in Reqs :
        (req[r].route = "/info" /\ calls[r] # <<>>) =>
            LET cs == calls[r]
            IN /\ cs[1].path = MetaPath
               /\ Len(cs) >= 2 => cs[1].state = "returned" /\ cs[2].path = SchemaPath
               /\ Len(cs) >= 3 => cs[2].state = "returned"
               /\ (Len(cs) >= 2 /\ cs[2].state = "returned") =>
                    /\ Len(cs) = 2 + Len(EntriesOf(r))
                    /\ \A i \in DOMAIN EntriesOf(r) :
                          cs[i + 2].body =
                              GraphqlBody(buildAggregateQuery(ClassNameOf(EntriesOf(r)[i])))
                    /\ resp[r] # <<>> => \A i \in DOMAIN cs : HasSettled(cs[i])
                    /\ (\A i \in DOMAIN cs : HasSettled(cs[i])) => resp[r] # <<>>

\* an /info request answered after both of its two count calls settled
C4_Witness ==
    \E r \in Reqs :
        /\ InfoEnded(r) /\ Succeeded(r)
        /\ Len(calls[r]) = 4
        /\ \A i \in DOMAIN calls[r] : HasSettled(calls[r][i])

(* ------------------------------ C5 - C6 ------------------------------- *)

\* the remote call was answered with a non-success HTTP status
HttpFailed(c) == c.res.net = "http" /\ c.res.status \notin 200..299

\* the remote call was answered with a success status and a body that does
\* not parse as JSON
ParseFailed(c) ==
    c.res.net = "http" /\ c.res.status \in 200..299 /\ ~JsonParse(c.res.text).ok

\* the trimmed body text or, when the body is blank, the status code followed
\* by the status text
FailureDetail(res) ==
    IF Trim(res.text) # <<>> THEN Trim(res.text)
    ELSE NumText(res.status) \o <<SP>> \o res.statusText

StartsWith(t, prefix) ==
    Len(t) >= Len(prefix) /\ SubSeq(t, 1, Len(prefix)) = prefix

RequestFailedPrefix(path) == <<"Request", SP, "to", SP>> \o path \o <<SP, "failed:", SP>>

InvalidJsonPrefix(path) ==
    <<"Invalid", SP, "JSON", SP, "response", SP, "from", SP>> \o path \o <<":", SP>>

\* C5 as stated: a non-success HTTP status makes weaviateFetch fail with an
\* error whose message is the trimmed body text or, when the body is blank,
\* the status code followed by the status text.
C5_MessageIsBody ==
    \A r \in Reqs : \A i \in DOMAIN calls[r] :
        HttpFailed(calls[r][i]) =>
            /\ calls[r][i].out.threw
            /\ calls[r][i].out.error.message = FailureDetail(calls[r][i].res)

\* C5 as amended: the message is "Request to <path> failed: " followed by the
\* trimmed body text or, when the body is blank, by the status code and the
\* status text.
C5_MessageIsPrefixedBody ==
    \A r \in Reqs : \A i \in DOMAIN calls[r] :
        HttpFailed(calls[r][i]) =>
            /\ calls[r][i].out.threw
            /\ calls[r][i].out.error.message =
                   RequestFailedPrefix(calls[r][i].path) \o FailureDetail(calls[r][i].res)

\* a 404 whose body "not found" came with surrounding white space, then a 404
\* with an empty body
C5_Witness ==
    \E r \in Reqs :
        /\ Len(calls[r]) = 2
        /\ HttpFailed(calls[r][1]) /\ calls[r][1].res.status = 404
        /\ Trim(calls[r][1].res.text) = <<"not", SP, "found">>
        /\ calls[r][1].res.text # Trim(calls[r][1].res.text)
        /\ HttpFailed(calls[r][2]) /\ calls[r][2].res.text = <<>>
        /\ calls[r][2].out.error.message =
               RequestFailedPrefix(calls[r][2].path) \o <<"4", "0", "4", SP, "Not", SP, "Found">>

\* C6 as stated: a failure by HTTP status and a failure by a body that does
\* not parse are errors of two different kinds.
C6_DistinctKinds ==
    \A r \in Reqs : \A i, j \in DOMAIN calls[r] :
        (HttpFailed(calls[r][i]) /\ ParseFailed(calls[r][j])) =>
            calls[r][i].out.error.name # calls[r][j].out.error.name

\* C6 as amended: both failures are thrown as a plain Error, of one kind,
\* and differ in the message only: "Request to <path> failed: ..." for a
\* non-success status, whether or not its body parses, and "Invalid JSON
\* response from <path>: ..." for a success status with a body that does not
\* parse.
C6_DistinctMessages ==
    \A r \in Reqs : \A i \in DOMAIN calls[r] :
        LET c == calls[r][i]
        IN /\ HttpFailed(c) =>
                /\ c.out.threw /\ c.out.error.name = "Error"
                /\ StartsWith(c.out.error.message, RequestFailedPrefix(c.path))
           /\ ParseFailed(c) =>
                /\ c.out.threw /\ c.out.error.name = "Error"
                /\ StartsWith(c.out.error.message, InvalidJsonPrefix(c.path))
           /\ \A j \in DOMAIN calls[r] :
                (HttpFailed(c) /\ ParseFailed(calls[r][j])) =>
                    c.out.error.message # calls[r][j].out.error.message

\* one request saw both: a non-success status whose body is JSON, then a
\* success status whose body is not JSON
C6_Witness ==
    \E r \in Reqs :
        /\ Len(calls[r]) = 2
        /\ HttpFailed(calls[r][1]) /\ JsonParse(calls[r][1].res.text).ok
        /\ ParseFailed(calls[r][2])
        /\ calls[r][1].out.error.name = calls[r][2].out.error.name

(* ------------------------------ C7 - C8 ------------------------------- *)

\* the parameters each operation requires
RequiredOf(route) ==
    CASE route = "/list" -> {"base", "class"}
      [] route = "/add" -> {"base", "class", "query", "content"}
      [] route = "/delete" -> {"base", "id"}
      [] route = "/object" -> {"base", "id"}
      [] route = "/search" -> {"base", "class", "query"}
      [] route = "/classes" -> {"base"}
      [] route = "/info" -> {"base"}
      [] OTHER -> {}

\* the parameter is absent or empty
IsMissing(v) == v = Undef \/ v = Str(<<>>)

MissingRequired(q) == \E f \in RequiredOf(q.route) : IsMissing(q[f])

\* C7: a request missing a required parameter is answered by its handler at
\* once with a validation failure (400) carrying an error message, and no
\* remote call is made for it.
C7_ValidationFirst ==
    \A r \in Reqs :
        (pc[r] \notin {"idle", "start"} /\ MissingRequired(req[r])) =>
            /\ pc[r] = "done"
            /\ calls[r] = <<>>
            /\ FailedWithMessage(r, 400)

\* an /add request with everything but content was refused without a call
C7_Witness ==
    \E r \in Reqs :
        /\ req[r].route = "/add"
        /\ ~IsMissing(req[r].base) /\ ~IsMissing(req[r].class) /\ ~IsMissing(req[r].query)
        /\ IsMissing(req[r].content)
        /\ pc[r] = "done" /\ calls[r] = <<>>
        /\ FailedWithMessage(r, 400)

\* the remote calls of r whose failure must fail the operation
Propagating(r) ==
    IF req[r].route \in {"/list", "/search", "/add", "/delete", "/classes"}
    THEN DOMAIN calls[r]
    ELSE IF req[r].route = "/info" THEN DOMAIN calls[r] \cap {1, 2}
    ELSE {}

\* C8: in /list, /search, /add, /delete, /classes and for the meta and schema
\* calls of /info, a remote call that fails ends the operation as a failure
\* with an error message; it is never answered as a success.
C8_FailurePropagates ==
    \A r \in Reqs : \A i \in Propagating(r) :
        (HasSettled(calls[r][i]) /\ FailedCall(calls[r][i])) =>
            /\ pc[r] = "done"
            /\ FailedWithMessage(r, 500)

\* a /list request whose remote call came back with a success status and a
\* body that is not JSON ended as a failure
C8_Witness ==
    \E r \in Reqs :
        /\ req[r].route = "/list"
        /\ Len(calls[r]) = 1 /\ ParseFailed(calls[r][1])
        /\ pc[r] = "done" /\ FailedWithMessage(r, 500)

(* ------------------------------ C9 - C10 ------------------------------ *)

\* the character an escape sequence \c stands for
Unescaped(c) == CASE c = "n" -> NL [] c = "r" -> CR [] OTHER -> c

RECURSIVE Unescape(_)
\* the inverse substitution, read left to right: a backslash and the
\* character after it stand for one character
Unescape(t) ==
    IF t = <<>> THEN <<>>
    ELSE IF Head(t) = BS /\ Len(t) >= 2
    THEN <<Unescaped(t[2])>> \o Unescape(SubSeq(t, 3, Len(t)))
    ELSE <<Head(t)>> \o Unescape(Tail(t))

\* the escape sequence of one character
EscapeOf(c) ==
    CASE c = BS -> <<BS, BS>>
      [] c = DQ -> <<BS, DQ>>
      [] c = NL -> <<BS, "n">>
      [] c = CR -> <<BS, "r">>
      [] OTHER -> <<c>>

RECURSIVE Concat(_)
Concat(ts) == IF ts = <<>> THEN <<>> ELSE Head(ts) \o Concat(Tail(ts))

\* no two of the texts drawn as queries have the same escaped text
EscapeInjective ==
    Cardinality({escapeGraphQL(Str(t)) : t \in QueryTexts}) = Cardinality(QueryTexts)

\* a /search request with a text query whose remote call has just been issued
TextSearchIssued(r) ==
    /\ req[r].route = "/search"
    /\ pc[r] = "await"
    /\ TypeOf(req[r].query) = "string"
    /\ req[r].query[2] \in QueryTexts

\* C9: escapeGraphQL replaces every backslash, double quote, newline and
\* carriage return by its escape sequence, backslashes first, so that the
\* inverse substitution gives back the input and no two inputs have the same
\* escaped text.
C9_EscapeRoundTrip ==
    \A r \in Reqs :
        TextSearchIssued(r) =>
            LET s == req[r].query[2]
                e == escapeGraphQL(req[r].query)
            IN /\ TypeOf(e) = "string"
               /\ e[2] = Concat([i \in DOMAIN s |-> EscapeOf(s[i])])
               /\ Unescape(e[2]) = s
               /\ EscapeInjective

\* a query holding a backslash followed by the letter n, and a newline, was
\* escaped and sent
C9_Witness ==
    \E r \in Reqs :
        /\ TextSearchIssued(r)
        /\ req[r].query[2] = <<BS, "n", NL>>
        /\ escapeGraphQL(req[r].query)[2] = <<BS, BS, "n", BS, "n">>

\* the GraphQL text in the body of a GraphQL POST: the JSON string of its
\* query property, decoded
SentGql(c) == Unescape(SubSeq(c.body, 7, Len(c.body) - 2))

\* the request asks for a hybrid search
IsHybrid(q) == q.type = Undef \/ q.type = Str(<<"hybrid">>)

\* what is between the delimiting double quotes of the query string literal
\* in the GraphQL text sent for /search request r
SentLiteral(r) ==
    LET q == req[r]
        gql == SentGql(calls[r][1])
        head == IF IsHybrid(q) THEN HybridHead(q.class) ELSE NearTextHead(q.class)
        tail == IF IsHybrid(q)
                THEN HybridTail(DEFAULT_SEARCH_PROPERTIES, OrElse(q.alpha, Dec(5)),
                                Num(DEFAULT_SEARCH_LIMIT))
                ELSE NearTextTail(DEFAULT_NEARTEXT_CERTAINTY, Num(DEFAULT_SEARCH_LIMIT))
    IN SubSeq(gql, Len(head) + 1, Len(gql) - Len(tail))

RECURSIVE EscapedOnly(_)
\* the text holds no raw double quote, newline or carriage return, and every
\* backslash in it starts an escape sequence
EscapedOnly(t) ==
    IF t = <<>> THEN TRUE
    ELSE IF Head(t) = BS
    THEN Len(t) >= 2 /\ t[2] \in {BS, DQ, "n", "r"} /\ EscapedOnly(SubSeq(t, 3, Len(t)))
    ELSE Head(t) \notin {DQ, NL, CR} /\ EscapedOnly(Tail(t))

\* a /search request that passed validation
SearchAccepted(r) == req[r].route = "/search" /\ calls[r] # <<>>

\* C10 as stated: for every query value /search accepts, text or not, and
\* both search modes, the string literal of the generated query holds the
\* value in escaped form only.
C10_QueryEscaped ==
    \A r \in Reqs : SearchAccepted(r) => EscapedOnly(SentLiteral(r))

\* what holds of the code: for every text query value /search accepts and
\* both search modes, the string literal of the generated query holds the
\* value in escaped form only, and unescapes to it; a query value that is not
\* text is interpolated as its plain string conversion, not escaped.
C10_TextQueryEscaped ==
    \A r \in Reqs :
        SearchAccepted(r) =>
            IF TypeOf(req[r].query) = "string"
            THEN /\ EscapedOnly(SentLiteral(r))
                 /\ Unescape(SentLiteral(r)) = req[r].query[2]
            ELSE SentLiteral(r) = JSString(req[r].query)

\* a nearText search for a text holding a double quote, a backslash and a
\* newline was sent
C10_Witness ==
    \E r \in Reqs :
        /\ SearchAccepted(r)
        /\ req[r].type = Str(<<"nearText">>)
        /\ req[r].query = Str(<<DQ, BS, NL>>)
        /\ SentLiteral(r) = <<BS, DQ, BS, BS, BS, "n">>
(* -------------------------------- C11 --------------------------------- *)

\* C11 as stated: the class name is escaped before it is interpolated: the
\* GraphQL text sent by /list and /search, and by each count call of /info,
\* is the text the builder gives for the escaped class name.
C11_ClassEscaped ==
    \A r \in Reqs :
        /\ (req[r].route = "/list" /\ calls[r] # <<>>) =>
              SentGql(calls[r][1]) =
                  buildListQuery(escapeGraphQL(req[r].class), Num(DEFAULT_LIST_LIMIT))
        /\ SearchAccepted(r) =>
              SentGql(calls[r][1]) =
                  buildSearchQuery(escapeGraphQL(req[r].class), req[r].query, req[r].type,
                                   Obj(<<P("alpha", req[r].alpha)>>))
        /\ (InfoEnded(r) /\ Succeeded(r)) =>
              \A i \in DOMAIN EntriesOf(r) :
                  SentGql(calls[r][i + 2]) =
                      buildAggregateQuery(escapeGraphQL(ClassNameOf(EntriesOf(r)[i])))

(* -------------------------------- C12 --------------------------------- *)

\* C12 as stated: in hybrid mode the alpha clause of the query sent carries
\* the alpha the caller supplied, whatever it is (0 included), and 0.5 only
\* when the caller supplied none.
C12_AlphaPassedThrough ==
    \A r \in Reqs :
        (SearchAccepted(r) /\ IsHybrid(req[r])) =>
            SentGql(calls[r][1]) =
                HybridHead(req[r].class) \o JSString(escapeGraphQL(req[r].query))
                \o HybridTail(DEFAULT_SEARCH_PROPERTIES,
                              IF req[r].alpha = Undef THEN Dec(5) ELSE req[r].alpha,
                              Num(DEFAULT_SEARCH_LIMIT))

(* -------------------------------- C13 --------------------------------- *)

\* C13 as stated: a nearText /search request that supplies a certainty, or a
\* limit, is sent with that certainty and that limit in its query; 0.5 and 5
\* are used only where the caller supplied none.
C13_CertaintyPassedThrough ==
    \A r \in Reqs :
        (SearchAccepted(r) /\ req[r].type = Str(<<"nearText">>)) =>
            SentGql(calls[r][1]) =
                NearTextHead(req[r].class) \o JSString(escapeGraphQL(req[r].query))
                \o NearTextTail(IF req[r].certainty = Undef THEN DEFAULT_NEARTEXT_CERTAINTY
                                ELSE req[r].certainty,
                                IF req[r].limit = Undef THEN Num(DEFAULT_SEARCH_LIMIT)
                                ELSE req[r].limit)

(* -------------------------------- C14 --------------------------------- *)

\* how many times the token k occurs in the text t
Occurrences(t, k) == Cardinality({i \in DOMAIN t : t[i] = k})

\* C14 as stated: the query sent for a /search request holds one search
\* clause, the hybrid one when type is 'hybrid' or omitted and the nearText
\* one when type is 'nearText'; for any other type no search of either kind
\* is sent.
C14_ClauseByMode ==
    \A r \in Reqs :
        SearchAccepted(r) =>
            LET gql == SentGql(calls[r][1])
                hybrid == Occurrences(gql, "hybrid:")
                nearText == Occurrences(gql, "nearText:")
            IN CASE req[r].type \in {Undef, Str(<<"hybrid">>)} -> hybrid = 1 /\ nearText = 0
                 [] req[r].type = Str(<<"nearText">>) -> hybrid = 0 /\ nearText = 1
                 [] OTHER -> hybrid = 0 /\ nearText = 0

(* ------------------------------ C15 - C16 ----------------------------- *)

\* a /list or /search request whose remote call returned a parsed body
Extracted(r) ==
    /\ req[r].route \in {"/list", "/search"}
    /\ Len(calls[r]) = 1
    /\ calls[r][1].state = "returned"

\* the parsed body d has an object under data, an object under Get in it, and
\* under the class name c in that an entry that is not null
HasEntry(d, c) ==
    /\ Tag(d) = "obj" /\ <<"data">> \in Keys(d)
    /\ LET data == d[2][CHOOSE i \in DOMAIN d[2] : d[2][i][1] = <<"data">>][2]
       IN /\ Tag(data) = "obj" /\ <<"Get">> \in Keys(data)
          /\ LET get == data[2][CHOOSE i \in DOMAIN data[2] : data[2][i][1] = <<"Get">>][2]
             IN /\ Tag(get) = "obj" /\ c \in Keys(get)
                /\ Tag(get[2][CHOOSE i \in DOMAIN get[2] : get[2][i][1] = c][2])
                       \notin {"null", "undef"}

\* that entry
EntryOf(d, c) ==
    LET data == d[2][CHOOSE i \in DOMAIN d[2] : d[2][i][1] = <<"data">>][2]
        get == data[2][CHOOSE i \in DOMAIN data[2] : data[2][i][1] = <<"Get">>][2]
    IN get[2][CHOOSE i \in DOMAIN get[2] : get[2][i][1] = c][2]

\* C15: for /list and /search, a success-status parsed response always ends
\* the operation as a success: with the list under data.Get.<className> when
\* there is one, all its records included, and with the empty list when the
\* path is absent at any level or the entry is null.
C15_AbsentMeansEmpty ==
    \A r \in Reqs :
        Extracted(r) =>
            LET d == calls[r][1].out.value
                c == req[r].class[2]
            IN /\ pc[r] = "done" /\ Succeeded(r)
               /\ resp[r][1].body = IF HasEntry(d, c) THEN EntryOf(d, c) ELSE Arr(<<>>)

\* a /search answered {"data":{"Get":{"Doc":null}}} ended with the empty list
C15_Witness ==
    \E r \in Reqs :
        /\ Extracted(r) /\ Succeeded(r)
        /\ req[r].route = "/search"
        /\ calls[r][1].out.value =
               Obj(<<P("data", Obj(<<P("Get", Obj(<<<<ListClass, Null>>>>))>>))>>)
        /\ resp[r][1].body = Arr(<<>>)

\* the flat form of a record: query, content, and id taken from _additional.id
Flat(rec) ==
    Obj(<<P("query", GetP(rec, "query")), P("content", GetP(rec, "content")),
          P("id", GetP(GetP(rec, "_additional"), "id"))>>)

\* C16 as stated: each record of the list is returned as the flat mapping
\* {query, content, id}, id taken from the record's _additional.id.
C16_FlatRecords ==
    \A r \in Reqs :
        (Extracted(r) /\ HasEntry(calls[r][1].out.value, req[r].class[2])) =>
            LET list == EntryOf(calls[r][1].out.value, req[r].class[2])[2]
            IN /\ Succeeded(r)
               /\ resp[r][1].body = Arr([i \in DOMAIN list |-> Flat(list[i])])

\* C16 as amended: each record of the list is returned as the remote sent
\* it, {query, content, _additional: {id}}: the identifier stays under
\* _additional.id and the record has no id property of its own.
C16_RecordsAsSent ==
    \A r \in Reqs :
        (Extracted(r) /\ HasEntry(calls[r][1].out.value, req[r].class[2])) =>
            LET list == EntryOf(calls[r][1].out.value, req[r].class[2])[2]
            IN /\ Succeeded(r)
               /\ Tag(resp[r][1].body) = "arr"
               /\ Len(resp[r][1].body[2]) = Len(list)
               /\ \A i \in DOMAIN list :
                     LET rec == resp[r][1].body[2][i]
                     IN /\ rec = list[i]
                        /\ <<"id">> \notin Keys(rec)
                        /\ GetP(GetP(rec, "_additional"), "id")
                               = GetP(GetP(list[i], "_additional"), "id")

\* a /list answered with the one record {query:"q", content:"c",
\* _additional:{id:"x"}} returned one record with x under _additional.id
C16_Witness ==
    \E r \in Reqs :
        /\ Extracted(r) /\ Succeeded(r)
        /\ req[r].route = "/list"
        /\ calls[r][1].out.value =
               Obj(<<P("data", Obj(<<P("Get", Obj(<<<<ListClass, Arr(<<GetRecord>>)>>>>))>>))>>)
        /\ Len(resp[r][1].body[2]) = 1
        /\ GetP(GetP(resp[r][1].body[2][1], "_additional"), "id") = Str(<<"x">>)

(* -------------------------------- C17 --------------------------------- *)

RECURSIVE ValueAt(_, _)
\* the value found in v by following path, a sequence of steps <<"key", k>>
\* (the property with key text k) and <<"index", n>> (the array element n,
\* from 0); <<"undef">> when a level is missing
ValueAt(v, path) ==
    IF path = <<>> THEN v
    ELSE LET step == Head(path)
         IN IF step[1] = "index"
            THEN IF Tag(v) = "arr" /\ step[2] < Len(v[2])
                 THEN ValueAt(v[2][step[2] + 1], Tail(path)) ELSE Undef
            ELSE IF Tag(v) = "obj" /\ \E i \in DOMAIN v[2] : v[2][i][1] = step[2]
                 THEN ValueAt(v[2][CHOOSE i \in DOMAIN v[2] : v[2][i][1] = step[2]][2],
                              Tail(path))
                 ELSE Undef

\* what the remote put at data.Aggregate.<name>[0].meta.count in its answer
\* to the count call of entry i
RemoteCount(r, i) ==
    ValueAt(calls[r][i + 2].out.value,
            << <<"key", <<"data">>>>, <<"key", <<"Aggregate">>>>, <<"key", NameOf(r, i)>>,
               <<"index", 0>>, <<"key", <<"meta">>>>, <<"key", <<"count">>>> >>)

\* the count the claim has that call give: the remote's value when the call
\* returned and the value is a number, unknown (null) otherwise
ClaimedCount(r, i) ==
    IF calls[r][i + 2].state = "returned" /\ Tag(RemoteCount(r, i)) \in {"num", "dec"}
    THEN RemoteCount(r, i) ELSE Null

\* C17: the count /info reports for a class is the value the remote put at
\* data.Aggregate.<className>[0].meta.count in the answer to a count call
\* for that class if that value is a number, and null in every other case
\* (path absent at some level, a numeric string, null): a reported 0 is a 0
\* the remote returned.
C17_CountOnlyIfNumber ==
    \A r \in Reqs :
        (InfoEnded(r) /\ Succeeded(r)) =>
            LET details == GetP(resp[r][1].body, "classDetails")
                idx == DOMAIN EntriesOf(r)
            IN \A i \in idx :
                  LET mine == {j \in idx : NameOf(r, j) = NameOf(r, i)}
                      count == GetP(Get(details, NameOf(r, i)), "count")
                  IN /\ count \in {ClaimedCount(r, j) : j \in mine}
                     /\ count = Num(0) =>
                            \E j \in mine : RemoteCount(r, j) = Num(0)

\* one class answered with the string "1" as its count, reported unknown, and
\* another answered with the number 0, reported 0
C17_Witness ==
    \E r \in Reqs :
        /\ InfoEnded(r) /\ Succeeded(r)
        /\ Len(EntriesOf(r)) = 2 /\ NameOf(r, 1) # NameOf(r, 2)
        /\ RemoteCount(r, 1) = Str(<<"1">>)
        /\ RemoteCount(r, 2) = Num(0)
        /\ GetP(Get(GetP(resp[r][1].body, "classDetails"), NameOf(r, 1)), "count") = Null
        /\ GetP(Get(GetP(resp[r][1].body, "classDetails"), NameOf(r, 2)), "count") = Num(0)

(* ------------------------------ C18 - C19 ----------------------------- *)

\* a /classes request whose remote call returned a parsed body
Introspected(r) ==
    /\ req[r].route = "/classes"
    /\ Len(calls[r]) = 1
    /\ calls[r][1].state = "returned"

\* the type list of the introspection payload of r
TypesOf(r) ==
    ValueAt(calls[r][1].out.value,
            << <<"key", <<"data">>>>, <<"key", <<"__schema">>>>, <<"key", <<"types">>>> >>)

\* the positions in that list of the types named GetObjectsObj
Named(r) ==
    {i \in DOMAIN TypesOf(r)[2] :
        ValueAt(TypesOf(r)[2][i], << <<"key", <<"name">>>> >>) = Str(<<"GetObjectsObj">>)}

\* C18: when the type list of the introspection payload holds no type named
\* GetObjectsObj, /classes ends as a success with an undefined (empty)
\* result; when it holds one with a field list, the result is the names of
\* its fields, in order.
C18_MissingTypeTolerated ==
    \A r \in Reqs :
        (Introspected(r) /\ Tag(TypesOf(r)) = "arr") =>
            IF Named(r) = {}
            THEN pc[r] = "done" /\ Succeeded(r) /\ resp[r][1].body = Undef
            ELSE LET fields == ValueAt(TypesOf(r)[2][CHOOSE i \in Named(r) : TRUE],
                                       << <<"key", <<"fields">>>> >>)
                 IN Tag(fields) = "arr" =>
                       /\ pc[r] = "done" /\ Succeeded(r)
                       /\ resp[r][1].body =
                              Arr([i \in DOMAIN fields[2] |->
                                     ValueAt(fields[2][i], << <<"key", <<"name">>>> >>)])

\* a /classes request answered with the one type Query ended as a success
\* with nothing in its result
C18_Witness ==
    \E r \in Reqs :
        /\ Introspected(r)
        /\ TypesOf(r) = Arr(<<TypeEntry("Query", <<"Get">>)>>)
        /\ Succeeded(r) /\ resp[r][1].body = Undef

\* C19 as stated: a success-status parsed GraphQL response, with or without
\* an errors list and whatever data fields it holds, never fails /list,
\* /search or /classes: the handler answers with a success.
C19_ParsedNeverFails ==
    \A r \in Reqs :
        (Extracted(r) \/ Introspected(r)) => pc[r] = "done" /\ Succeeded(r)

(* -------------------------------- C20 --------------------------------- *)

\* the response the handler of r gives when it runs with no other request,
\* from the parameters of r and the outcomes of its own remote calls
Alone(r) ==
    LET q == req[r]
        cs == calls[r]
        last == cs[Len(cs)].out
    IN CASE q.route \in {"/list", "/search"} ->
              IF last.threw THEN asyncHandler(last.error)
              ELSE Json(GetResult(last.value, q.class))
         [] q.route \in {"/add", "/delete"} ->
              IF last.threw THEN asyncHandler(last.error) ELSE SendStatus200
         [] q.route = "/object" ->
              IF last.threw THEN asyncHandler(last.error) ELSE Json(last.value)
         [] q.route = "/classes" ->
              IF last.threw THEN asyncHandler(last.error)
              ELSE IF ClassNamesOf(last.value).threw
              THEN asyncHandler(ClassNamesOf(last.value).error)
              ELSE Json(ClassNamesOf(last.value).value)
         [] OTHER ->
              IF Len(cs) <= 2 /\ last.threw THEN asyncHandler(last.error)
              ELSE Json(InfoBody(InSchemaOrder(r,
                        [NoLoc EXCEPT !.meta = cs[1].out.value,
                                      !.classes = Arr(EntriesOf(r))], 1)))

\* a response with the classDetails of an /info body read as a mapping, the
\* order of its properties (the order the count calls settled in) left out
Content(a) ==
    IF <<"classDetails">> \in Keys(a.body)
    THEN [status |-> a.status,
          meta |-> GetP(a.body, "meta"),
          classes |-> GetP(a.body, "classes"),
          classDetails |-> AsMap(GetP(a.body, "classDetails")),
          total |-> GetP(a.body, "total")]
    ELSE [status |-> a.status, body |-> a.body]

\* C20: with two requests handled concurrently, every remote call made for a
\* request goes to the base URL of that request with the API key of that
\* request, and the response of a request is the one its handler gives alone
\* on the same parameters and the same outcomes of its own remote calls,
\* classDetails and total of /info included.
C20_RequestsIsolated ==
    \A r \in Reqs :
        /\ \A i \in DOMAIN calls[r] :
              /\ calls[r][i].url = JSString(req[r].base) \o calls[r][i].path
              /\ calls[r][i].authorization = <<"Bearer", SP>> \o JSString(req[r].apiKey)
        /\ pc[r] = "done" => Len(resp[r]) = 1 /\ Content(resp[r][1]) = Content(Alone(r))

\* two /info requests for two instances, interleaved, both ended with the
\* total 2 of their own two classes
C20_Witness ==
    /\ \A r \in Reqs :
          /\ InfoEnded(r) /\ Succeeded(r)
          /\ Len(calls[r]) = 4
          /\ GetP(resp[r][1].body, "total") = Num(2)
    /\ req[1].base = BaseA /\ req[2].base = BaseB
    /\ calls[1][1].url # calls[2][1].url

(* -------------------------------- C21 --------------------------------- *)

\* something thrown while the handler of r ran has escaped it: the last
\* remote call of a handler that awaits one call at a time, the meta or the
\* schema call of /info, or the reading of the introspection payload
Escaped(r) ==
    LET cs == calls[r]
    IN /\ cs # <<>>
       /\ \/ req[r].route # "/info" /\ cs[Len(cs)].state = "threw"
          \/ req[r].route = "/info" /\ \E i \in DOMAIN cs \cap {1, 2} : cs[i].state = "threw"
          \/ /\ req[r].route = "/classes"
             /\ cs[1].state = "returned"
             /\ ClassNamesOf(cs[1].out.value).threw

\* C21: every request gets exactly one response: a 400 with an error message
\* when a required parameter is missing, a 500 with {error: message} when
\* something thrown escapes the handler, and a success otherwise; there is
\* never a second response, and a request all of whose remote calls have
\* settled has its response.
C21_ExactlyOneResponse ==
    \A r \in Reqs :
        /\ Len(resp[r]) <= 1
        /\ pc[r] = "done" <=> Len(resp[r]) = 1
        /\ (calls[r] # <<>> /\ \A i \in DOMAIN calls[r] : HasSettled(calls[r][i])) =>
               Len(resp[r]) = 1
        /\ Len(resp[r]) = 1 =>
               CASE MissingRequired(req[r]) -> FailedWithMessage(r, 400) /\ calls[r] = <<>>
                 [] Escaped(r) -> FailedWithMessage(r, 500)
                 [] OTHER -> resp[r][1].status = 200

\* a /classes request whose remote call returned a body without data was
\* answered once, with a 500
C21_Witness ==
    \E r \in Reqs :
        /\ req[r].route = "/classes"
        /\ Len(calls[r]) = 1 /\ calls[r][1].state = "returned"
        /\ Escaped(r)
        /\ pc[r] = "done" /\ Len(resp[r]) = 1
        /\ FailedWithMessage(r, 500)

(* -------------------------------- C22 --------------------------------- *)

\* C22 as stated: when the remote create or delete call comes back with a
\* success HTTP status, /add and /delete answer with a success, whatever the
\* body, an empty one included.
C22_SuccessStatusSucceeds ==
    \A r \in Reqs :
        (/\ req[r].route \in {"/add", "/delete"}
         /\ Len(calls[r]) = 1
         /\ calls[r][1].res.net = "http"
         /\ calls[r][1].res.status \in 200..299) =>
            pc[r] = "done" /\ Succeeded(r)

(* ------------------------------ C23 - C24 ----------------------------- *)

\* C23 as stated: in a successful /info response total is the sum of the
\* numeric count fields of the entries of classDetails in that response, for
\* every schema, schemas that list a class name twice included.
C23_TotalIsSumOfDetails ==
    \A r \in Reqs :
        (InfoEnded(r) /\ Succeeded(r)) =>
            LET details == GetP(resp[r][1].body, "classDetails")[2]
            IN GetP(resp[r][1].body, "total") =
                   Num(SumNumbers([i \in DOMAIN details |-> GetP(details[i][2], "count")]))

\* the names in a list of values that are names at all, as key texts
DefinedNames(list) ==
    {JSString(list[i]) : i \in {j \in DOMAIN list : Tag(list[j]) \notin {"undef", "null"}}}

\* C24 as stated: in a successful /info response every element of classes is
\* a defined class name and a key of classDetails, and every key of
\* classDetails is in classes, for each of the three shapes of schema entry.
C24_ClassesMatchDetails ==
    \A r \in Reqs :
        (InfoEnded(r) /\ Succeeded(r)) =>
            LET classes == GetP(resp[r][1].body, "classes")[2]
                keys == Keys(GetP(resp[r][1].body, "classDetails"))
            IN /\ \A i \in DOMAIN classes :
                     /\ Tag(classes[i]) \notin {"undef", "null"}
                     /\ JSString(classes[i]) \in keys
               /\ keys \subseteq DefinedNames(classes)

(* -------------------------------- C25 --------------------------------- *)

\* the characters that end a path segment or start a query or a fragment
PathReserved == {"/", "?", "&", "=", "#"}

\* the path is /v1/objects/ followed by the percent-encoded id and by tail,
\* with none of the reserved characters in the id's place
TargetsObject(path, id, tail) ==
    LET prefix == ObjectsPath \o <<"/">>
        segment == SubSeq(path, Len(prefix) + 1, Len(path) - Len(tail))
    IN /\ path = prefix \o segment \o tail
       /\ segment = encodeURIComponent(id)
       /\ \A i \in DOMAIN segment : segment[i] \notin PathReserved

\* C25 as stated: the id of /object and of /delete is percent-encoded where
\* it is put into the remote path: every remote call targets
\* /v1/objects/<encoded id>, with ?include=vector on the first attempt of
\* /object, and no id adds a path segment or a query parameter.
C25_IdEncoded ==
    \A r \in Reqs : \A i \in DOMAIN calls[r] :
        /\ req[r].route = "/delete" => TargetsObject(calls[r][i].path, req[r].id, <<>>)
        /\ req[r].route = "/object" =>
               TargetsObject(calls[r][i].path, req[r].id, IF i = 1 THEN VectorFlag ELSE <<>>)

====
